---- MODULE Spec2Model ----
(***************************************************************************)
(* A model of the LTRE rule engine (src/LTMS2/cltre.py) on top of the      *)
(* justification-based TMS (src/LTMS2/cltms.py), with the two rule bodies  *)
(* of src/activity.py.                                                     *)
(*                                                                         *)
(* Terms.  A fact form or a pattern is a tuple of atoms.  An atom is       *)
(* written as the Python literal it stands for: "CS101" is the string      *)
(* 'CS101', "?p" is the variable '?p', and "1" and "1.0" are the int 1     *)
(* and the float 1.0.  Two different TLA+ values are two Python values     *)
(* with different str(); PyEq is Python's ==, under which 1 == 1.0.        *)
(*                                                                         *)
(* Objects.  A Node is its index in `nodes` (Node.id), a Justification is  *)
(* its index in `justs`, a DbClass its index in `dbclasses` (the dict's    *)
(* insertion order) and a Rule its index in `rules` (Rule.id).             *)
(*                                                                         *)
(* Calls.  The engine is single-threaded: assert_fact, retract and         *)
(* add_rule are one step each; run_rules is a call step, one step per pass *)
(* of its loop (a pop and the whole body), and a return step, and no other *)
(* call starts while it runs.  A rule body is one of the two functions of  *)
(* src/activity.py, named by a string.                                     *)
(*                                                                         *)
(* Specifications.  Each one draws the calls from a small set of inputs:   *)
(*   SpecBelief    assert_fact (premises and derivations) and retract      *)
(*   SpecRules     premises, retract, two chained rules and run_rules      *)
(*   SpecMatch     premises, retract, two rules on one predicate           *)
(*   SpecForms     facts written 1 and 1.0                                 *)
(*   SpecScenario  the end-to-end script                                   *)
(***************************************************************************)
EXTENDS Integers, Sequences, FiniteSets, TLC

VARIABLES
    nodes,      \* CLTMS.nodes: id -> [datum, label, supp, assumptions, consequences]
    justs,      \* every Justification made by add_support: [informant, consequent, antecedents]
    dbclasses,  \* LTRE.dbclasses in insertion order: [key, form, datum]
    rules,      \* LTRE.rules: [id, trigger, body]
    queue,      \* LTRE.queue: [rule, env, node]
    pc,         \* "idle", or "running" while run_rules is draining the queue
    lastOp,     \* the call that made the last step
    fired,      \* the queue entry whose body run_rules invoked last, with the label it saw
    batch,      \* entries still in the queue that were there when run_rules was called
    result,     \* what the last call of fetch, unify or subst returned
    stack       \* the frames of propagate and re_evaluate under way, the innermost last

vars == <<nodes, justs, dbclasses, rules, queue, pc, lastOp, fired, batch, result, stack>>

\* ---------------------------------------------------------------- bounds
\* MaxJusts: justifications there may be when a call that adds some starts.
\* MaxRules: rules registered.  MaxQueue: queue entries when a call returns.
MaxJusts == 2
MaxRules == 2
MaxQueue == 2
\* MaxArity: items of the longest sequence unify and subst are tried on.
MaxArity == 3
\* MaxDepth: frames of propagate or re_evaluate one inside the other.
MaxDepth == 4

\* ---------------------------------------------------------------- terms
Variables == {"?p", "?s", "?c", "?sem"}

NumOne == {"1", "1.0"}

is_var(x) == x \in Variables

\* Python == on atoms: equal values, or the int and the float of the same number.
PyEqAtom(a, b) == a = b \/ (a \in NumOne /\ b \in NumOne)

\* Python == on tuples.
PyEq(s, t) ==
    /\ Len(s) = Len(t)
    /\ \A i \in 1..Len(s) : PyEqAtom(s[i], t[i])

\* str(form): every atom is written by its literal, so two forms have the same
\* key exactly when they are written the same.
str(form) == form

EmptyEnv == [v \in {} |-> ""]
NoEnv == [ok |-> FALSE, env |-> EmptyEnv]
SomeEnv(env) == [ok |-> TRUE, env |-> env]

Bind(env, v, x) == [w \in (DOMAIN env) \cup {v} |-> IF w = v THEN x ELSE env[w]]

\* unify that binds a variable again without looking it up in env
unifyAtomRebind(pat, term, env) ==
    IF PyEqAtom(pat, term) THEN SomeEnv(env)
    ELSE IF is_var(pat) THEN SomeEnv(Bind(env, pat, term))
    ELSE IF is_var(term) THEN SomeEnv(Bind(env, term, pat))
    ELSE NoEnv

RECURSIVE unifyAtom(_, _, _)
unifyAtom(pat, term, env) ==
    IF PyEqAtom(pat, term) THEN SomeEnv(env)
    ELSE IF is_var(pat) THEN
        IF pat \in DOMAIN env THEN unifyAtom(env[pat], term, env)
        ELSE SomeEnv(Bind(env, pat, term))
    ELSE IF is_var(term) THEN
        IF term \in DOMAIN env THEN unifyAtom(pat, env[term], env)
        ELSE SomeEnv(Bind(env, term, pat))
    ELSE NoEnv

RECURSIVE unifyFrom(_, _, _, _)
unifyFrom(pat, term, env, i) ==
    IF i > Len(pat) THEN SomeEnv(env)
    ELSE LET r == unifyAtom(pat[i], term[i], env)
         IN  IF r.ok THEN unifyFrom(pat, term, r.env, i + 1) ELSE NoEnv

unify(pat, term, env) ==
    IF PyEq(pat, term) THEN SomeEnv(env)
    ELSE IF Len(pat) # Len(term) THEN NoEnv
    ELSE unifyFrom(pat, term, env, 1)

RECURSIVE substAtom(_, _)
substAtom(pat, env) ==
    IF is_var(pat)
    THEN IF pat \in DOMAIN env THEN substAtom(env[pat], env) ELSE pat
    ELSE pat

subst(pat, env) == [i \in 1..Len(pat) |-> substAtom(pat[i], env)]

\* A term with the kind of Python value it is: an atom (items holds it alone),
\* a tuple or a list of atoms.  unify and subst above are unifyTerm and
\* substTerm on two tuples.
Term(kind, items) == [kind |-> kind, items |-> items]

IsVarTerm(x) == x.kind = "atom" /\ is_var(x.items[1])

IsSeqTerm(x) == x.kind \in {"tuple", "list"}

\* pat == term: a tuple is never == a list, nor a sequence == an atom.
PyEqTerm(s, t) == s.kind = t.kind /\ PyEq(s.items, t.items)

\* unify(pat, term) with env left to its default, the empty environment.
unifyTerm(pat, term) ==
    IF PyEqTerm(pat, term) THEN SomeEnv(EmptyEnv)
    ELSE IF IsVarTerm(pat) THEN SomeEnv(Bind(EmptyEnv, pat.items[1], term))
    ELSE IF IsVarTerm(term) THEN SomeEnv(Bind(EmptyEnv, term.items[1], pat))
    ELSE IF IsSeqTerm(pat) /\ IsSeqTerm(term) THEN
        IF Len(pat.items) # Len(term.items) THEN NoEnv
        ELSE unifyFrom(pat.items, term.items, EmptyEnv, 1)
    ELSE NoEnv

RECURSIVE substTerm(_, _)
substTerm(pat, env) ==
    IF IsVarTerm(pat)
    THEN IF pat.items[1] \in DOMAIN env THEN substTerm(env[pat.items[1]], env) ELSE pat
    ELSE IF IsSeqTerm(pat) THEN Term(pat.kind, subst(pat.items, env))
    ELSE pat

\* ---------------------------------------------------------------- CLTMS
Node(datum) ==
    [datum |-> datum, label |-> "UNKNOWN", supp |-> 0,
     assumptions |-> {}, consequences |-> <<>>]

\* create_node: the first node whose datum == the form, else a new one.
create_node(ns, datum) ==
    LET same == {i \in 1..Len(ns) : PyEq(ns[i].datum, datum)}
    IN  IF same # {}
        THEN [nodes |-> ns, id |-> CHOOSE i \in same : \A k \in same : i <= k]
        ELSE [nodes |-> Append(ns, Node(datum)), id |-> Len(ns) + 1]

is_true(ns, n) == ns[n].label = "TRUE"

is_false(ns, n) == ns[n].label = "FALSE"

is_valid(ns, js, j) ==
    \A k \in 1..Len(js[j].antecedents) : ns[js[j].antecedents[k]].label = "TRUE"

RECURSIVE propagate(_, _, _), propagateFrom(_, _, _, _)
propagateFrom(ns, js, n, k) ==
    IF k > Len(ns[n].consequences) THEN ns
    ELSE LET j == ns[n].consequences[k]
             cons == js[j].consequent
         IN  IF is_valid(ns, js, j) /\ ns[cons].label # "TRUE"
             THEN propagateFrom(
                      propagate([ns EXCEPT ![cons].label = "TRUE", ![cons].supp = j],
                                js, cons),
                      js, n, k + 1)
             ELSE propagateFrom(ns, js, n, k + 1)

propagate(ns, js, n) ==
    IF ns[n].label # "TRUE" THEN ns ELSE propagateFrom(ns, js, n, 1)

\* re_evaluate without the cascade to the consequences.
re_evaluate_no_cascade(ns, js, n) ==
    IF ns[n].assumptions # {} THEN [ns EXCEPT ![n].label = "TRUE"]
    ELSE IF ns[n].supp # 0 /\ is_valid(ns, js, ns[n].supp)
    THEN [ns EXCEPT ![n].label = "TRUE"]
    ELSE IF ns[n].label # "UNKNOWN"
    THEN [ns EXCEPT ![n].label = "UNKNOWN", ![n].supp = 0]
    ELSE ns

RECURSIVE re_evaluate(_, _, _), reEvaluateFrom(_, _, _, _)
reEvaluateFrom(ns, js, n, k) ==
    IF k > Len(ns[n].consequences) THEN ns
    ELSE reEvaluateFrom(re_evaluate(ns, js, js[ns[n].consequences[k]].consequent),
                        js, n, k + 1)

re_evaluate(ns, js, n) ==
    IF ns[n].assumptions # {} THEN [ns EXCEPT ![n].label = "TRUE"]
    ELSE IF ns[n].supp # 0 /\ is_valid(ns, js, ns[n].supp)
    THEN [ns EXCEPT ![n].label = "TRUE"]
    ELSE IF ns[n].label # "UNKNOWN"
    THEN reEvaluateFrom([ns EXCEPT ![n].label = "UNKNOWN", ![n].supp = 0], js, n, 1)
    ELSE ns

\* enable_assumption without its early return, propagating every time.
enable_assumption_always(ns, js, n, value, informant) ==
    propagate([ns EXCEPT ![n].assumptions = @ \cup {informant}, ![n].label = value], js, n)

enable_assumption(ns, js, n, value, informant) ==
    IF informant \in ns[n].assumptions /\ ns[n].label = value THEN ns
    ELSE LET ns1 == [ns EXCEPT ![n].assumptions = @ \cup {informant}]
         IN  IF ns1[n].label # value
             THEN propagate([ns1 EXCEPT ![n].label = value], js, n)
             ELSE ns1

retract_assumption(ns, js, n, informant) ==
    re_evaluate([ns EXCEPT ![n].assumptions = @ \ {informant}], js, n)

RECURSIVE linkAntecedentsNewest(_, _, _, _)
\* linking that keeps only the newest justification in each consequence list
linkAntecedentsNewest(ns, ants, j, k) ==
    IF k > Len(ants) THEN ns
    ELSE linkAntecedentsNewest([ns EXCEPT ![ants[k]].consequences = <<j>>],
                               ants, j, k + 1)

RECURSIVE linkAntecedents(_, _, _, _)
linkAntecedents(ns, ants, j, k) ==
    IF k > Len(ants) THEN ns
    ELSE linkAntecedents([ns EXCEPT ![ants[k]].consequences = Append(@, j)],
                         ants, j, k + 1)

\* add_support: the new nodes and the new justifications.
add_support(ns, js, consequent, antecedents, informant) ==
    LET j   == Len(js) + 1
        js1 == Append(js, [informant |-> informant, consequent |-> consequent,
                           antecedents |-> antecedents])
        ns1 == linkAntecedents([ns EXCEPT ![consequent].supp = j], antecedents, j, 1)
    IN  IF is_valid(ns1, js1, j) /\ ns1[consequent].label # "TRUE"
        THEN [nodes |-> propagate([ns1 EXCEPT ![consequent].label = "TRUE",
                                               ![consequent].supp = j],
                                  js1, consequent),
              justs |-> js1]
        ELSE [nodes |-> ns1, justs |-> js1]

\* ---------------------------------------------------------------- LTRE
\* The engine's state as one value, for the operators that thread it.
Eng == [nodes |-> nodes, justs |-> justs, dbclasses |-> dbclasses,
        rules |-> rules, queue |-> queue]

HasKey(dbs, key) == \E i \in 1..Len(dbs) : dbs[i].key = key

DbIndex(dbs, key) == CHOOSE i \in 1..Len(dbs) : dbs[i].key = key

\* get_dbclass: the engine afterwards and the DbClass returned.
get_dbclass(e, form) ==
    LET key == str(form)
    IN  IF HasKey(e.dbclasses, key)
        THEN [eng |-> e, dbc |-> DbIndex(e.dbclasses, key)]
        ELSE LET cn == create_node(e.nodes, form)
             IN  [eng |-> [e EXCEPT !.nodes = cn.nodes,
                                    !.dbclasses = Append(@, [key |-> key, form |-> form,
                                                             datum |-> cn.id])],
                  dbc |-> Len(e.dbclasses) + 1]

\* check_condition that takes any label
check_condition_any(e, cond, n) == cond \in {"TRUE", "FALSE"}

\* check_condition that lets a condition it does not know match
check_condition_lenient(e, cond, n) ==
    IF cond = "TRUE" THEN is_true(e.nodes, n)
    ELSE IF cond = "FALSE" THEN is_false(e.nodes, n)
    ELSE TRUE

check_condition(e, cond, n) ==
    IF cond = "TRUE" THEN is_true(e.nodes, n)
    ELSE IF cond = "FALSE" THEN is_false(e.nodes, n)
    ELSE FALSE

enqueue(e, r, env, n) ==
    [e EXCEPT !.queue = Append(@, [rule |-> r, env |-> env, node |-> n])]

try_match_rule_dbclass(e, r, d) ==
    LET cond == e.rules[r].trigger[1]
        pat  == e.rules[r].trigger[2]
        u    == unify(pat, e.dbclasses[d].form, EmptyEnv)
        n    == e.dbclasses[d].datum
    IN  IF u.ok /\ check_condition(e, cond, n) THEN enqueue(e, r, u.env, n) ELSE e

RECURSIVE matchDbclassesFrom(_, _, _)
matchDbclassesFrom(e, r, d) ==
    IF d > Len(e.dbclasses) THEN e
    ELSE matchDbclassesFrom(try_match_rule_dbclass(e, r, d), r, d + 1)

add_rule(e, trigger, body) ==
    LET r == Len(e.rules) + 1
    IN  matchDbclassesFrom(
            [e EXCEPT !.rules = Append(@, [id |-> r, trigger |-> trigger, body |-> body])],
            r, 1)

RECURSIVE propagateFactFrom(_, _, _)
propagateFactFrom(e, d, r) ==
    IF r > Len(e.rules) THEN e
    ELSE propagateFactFrom(try_match_rule_dbclass(e, r, d), d, r + 1)

propagate_fact(e, d) == propagateFactFrom(e, d, 1)

RECURSIVE antecedentNodes(_, _, _)
\* [self.get_dbclass(d).datum for d in dependencies]: the engine and the nodes.
antecedentNodes(e, dependencies, acc) ==
    IF dependencies = <<>> THEN [eng |-> e, ants |-> acc]
    ELSE LET g == get_dbclass(e, Head(dependencies))
         IN  antecedentNodes(g.eng, Tail(dependencies),
                             Append(acc, g.eng.dbclasses[g.dbc].datum))

\* assert_fact that matches the rules only when the call made the node TRUE
assert_fact_once(e, fact, just, dependencies) ==
    LET g    == get_dbclass(e, fact)
        node == g.eng.dbclasses[g.dbc].datum
        e1   == IF dependencies # <<>>
                THEN LET a == antecedentNodes(g.eng, dependencies, <<>>)
                         s == add_support(a.eng.nodes, a.eng.justs, node, a.ants, just)
                     IN  [a.eng EXCEPT !.nodes = s.nodes, !.justs = s.justs]
                ELSE [g.eng EXCEPT !.nodes =
                          enable_assumption(g.eng.nodes, g.eng.justs, node, "TRUE", just)]
    IN  IF is_true(e1.nodes, node) /\ ~is_true(g.eng.nodes, node)
        THEN propagate_fact(e1, g.dbc)
        ELSE e1

assert_fact(e, fact, just, dependencies) ==
    LET g    == get_dbclass(e, fact)
        node == g.eng.dbclasses[g.dbc].datum
        e1   == IF dependencies # <<>>
                THEN LET a == antecedentNodes(g.eng, dependencies, <<>>)
                         s == add_support(a.eng.nodes, a.eng.justs, node, a.ants, just)
                     IN  [a.eng EXCEPT !.nodes = s.nodes, !.justs = s.justs]
                ELSE [g.eng EXCEPT !.nodes =
                          enable_assumption(g.eng.nodes, g.eng.justs, node, "TRUE", just)]
    IN  IF is_true(e1.nodes, node) THEN propagate_fact(e1, g.dbc) ELSE e1

retract(e, fact, reason) ==
    LET g    == get_dbclass(e, fact)
        node == g.eng.dbclasses[g.dbc].datum
    IN  [g.eng EXCEPT !.nodes = retract_assumption(g.eng.nodes, g.eng.justs, node, reason)]

RECURSIVE fetchFrom(_, _, _, _)
fetchFrom(e, pattern, d, results) ==
    IF d > Len(e.dbclasses) THEN results
    ELSE LET u == unify(pattern, e.dbclasses[d].form, EmptyEnv)
         IN  fetchFrom(e, pattern, d + 1,
                       IF u.ok /\ is_true(e.nodes, e.dbclasses[d].datum)
                       THEN Append(results, subst(pattern, u.env))
                       ELSE results)

\* fetch that keeps every dbclass that unifies, whatever its node's label
fetch_any_label(e, pattern) ==
    LET ds == {d \in 1..Len(e.dbclasses) : unify(pattern, e.dbclasses[d].form, EmptyEnv).ok}
        nth(k) == CHOOSE d \in ds : Cardinality({x \in ds : x < d}) = k - 1
    IN  [k \in 1..Cardinality(ds) |->
            subst(pattern, unify(pattern, e.dbclasses[nth(k)].form, EmptyEnv).env)]

\* fetch that answers with the newest dbclass first
fetch_newest_first(e, pattern) ==
    LET r == fetchFrom(e, pattern, 1, <<>>)
    IN  [k \in 1..Len(r) |-> r[Len(r) + 1 - k]]

fetch(e, pattern) == fetchFrom(e, pattern, 1, <<>>)

\* ---------------------------------------------------------------- rule bodies
RECURSIVE eligibleFrom(_, _, _, _)
\* the loop of eligible over the courses fetched before it
eligibleFrom(e, courses, prereq, student) ==
    IF courses = <<>> THEN e
    ELSE LET course  == Head(courses)[2]
             offered == fetch(e, <<"offered", course, "?sem">>)
         IN  eligibleFrom(
                 IF offered # <<>>
                 THEN assert_fact(e, <<"eligible", student, course>>, <<"rule", "eligible">>,
                                  << <<"taken", prereq, student>>,
                                     <<"requires", course, prereq>>,
                                     offered[1] >>)
                 ELSE e,
                 Tail(courses), prereq, student)

eligible(e, env, trigger_node) ==
    eligibleFrom(e, fetch(e, <<"requires", "?c", env["?p"]>>), env["?p"], env["?s"])

finished(e, env, trigger_node) ==
    assert_fact(e, <<"completedCourses", env["?s"]>>, <<"rule", "finished">>,
                << <<"taken", "CS103", env["?s"]>> >>)

\* rule.body(env, node)
CallBody(e, body, env, n) ==
    IF body = "eligible" THEN eligible(e, env, n) ELSE finished(e, env, n)

\* ---------------------------------------------------------------- calls
NoFact == <<>>
NoFired == [rule |-> 0, env |-> EmptyEnv, node |-> 0, label |-> "UNKNOWN", late |-> FALSE]
NoPre == [known |-> FALSE, label |-> "UNKNOWN", assumptions |-> {}]

\* What a call's fact resolves to before the call: its node's label and assumptions.
PreOf(fact) ==
    LET g == get_dbclass(Eng, fact)
        n == g.eng.dbclasses[g.dbc].datum
    IN  IF n <= Len(nodes)
        THEN [known |-> TRUE, label |-> nodes[n].label, assumptions |-> nodes[n].assumptions]
        ELSE NoPre

Call(op, fact, just, deps, trigger, body, pre) ==
    [op |-> op, fact |-> fact, just |-> just, deps |-> deps,
     trigger |-> trigger, body |-> body, pre |-> pre]

NoCall == Call("init", NoFact, "", <<>>, <<>>, "", NoPre)

\* The engine after a call, with the call recorded.
Returns(e, call) ==
    /\ nodes' = e.nodes
    /\ justs' = e.justs
    /\ dbclasses' = e.dbclasses
    /\ rules' = e.rules
    /\ queue' = e.queue
    /\ lastOp' = call

AssertFact(fact, just, dependencies) ==
    /\ pc = "idle"
    /\ dependencies # <<>> => Len(justs) < MaxJusts
    /\ LET e == assert_fact(Eng, fact, just, dependencies)
       IN  /\ Len(e.queue) <= MaxQueue
           /\ Returns(e, Call("assert_fact", fact, just, dependencies, <<>>, "", PreOf(fact)))
    /\ UNCHANGED <<pc, fired, batch, result, stack>>

Retract(fact, reason) ==
    /\ pc = "idle"
    /\ Returns(retract(Eng, fact, reason),
               Call("retract", fact, reason, <<>>, <<>>, "", PreOf(fact)))
    /\ UNCHANGED <<pc, fired, batch, result, stack>>

AddRule(trigger, body) ==
    /\ pc = "idle"
    /\ Len(rules) < MaxRules
    /\ LET e == add_rule(Eng, trigger, body)
       IN  /\ Len(e.queue) <= MaxQueue
           /\ Returns(e, Call("add_rule", NoFact, "", <<>>, trigger, body, NoPre))
    /\ UNCHANGED <<pc, fired, batch, result, stack>>

\* a loop over the entries that were queued when run_rules was called
queuePendingBatch(q, b) == q # <<>> /\ b > 0

\* while self.queue
queuePending(q, b) == q # <<>>

\* pop() in place of pop(0): the newest entry.
pop_last(q) == [entry |-> q[Len(q)], rest |-> SubSeq(q, 1, Len(q) - 1)]

\* self.queue.pop(0): the entry taken and the queue left
pop0(q) == [entry |-> Head(q), rest |-> Tail(q)]

\* run_rules is called: the loop starts.
RunRulesCall ==
    /\ pc = "idle"
    /\ Len(justs) <= MaxJusts
    /\ pc' = "running"
    /\ batch' = Len(queue)
    /\ lastOp' = Call("run_rules", NoFact, "", <<>>, <<>>, "", NoPre)
    /\ fired' = NoFired
    /\ UNCHANGED <<nodes, justs, dbclasses, rules, queue, result, stack>>

\* One pass of the loop: pop(0) and the body's call.
RunRulesStep ==
    /\ pc = "running"
    /\ queuePending(queue, batch)
    /\ LET p     == pop0(queue)
           entry == p.entry
           e     == CallBody([Eng EXCEPT !.queue = p.rest],
                             rules[entry.rule].body, entry.env, entry.node)
       IN  /\ Returns(e, Call("body", NoFact, "", <<>>, <<>>, rules[entry.rule].body, NoPre))
           /\ fired' = [rule |-> entry.rule, env |-> entry.env, node |-> entry.node,
                        label |-> nodes[entry.node].label, late |-> batch = 0]
    /\ batch' = IF batch > 0 THEN batch - 1 ELSE 0
    /\ UNCHANGED <<pc, result, stack>>

\* The loop ends and run_rules returns.
RunRulesReturn ==
    /\ pc = "running"
    /\ ~queuePending(queue, batch)
    /\ pc' = "idle"
    /\ lastOp' = Call("run_rules_return", NoFact, "", <<>>, <<>>, "", NoPre)
    /\ UNCHANGED <<nodes, justs, dbclasses, rules, queue, fired, batch, result, stack>>

\* fetch(pattern) is called and returns.
Fetch(pattern) ==
    /\ pc = "idle"
    /\ result' = fetch(Eng, pattern)
    /\ lastOp' = Call("fetch", pattern, "", <<>>, <<>>, "", NoPre)
    /\ UNCHANGED <<nodes, justs, dbclasses, rules, queue, pc, fired, batch, stack>>

\* retract(fact, reason) and then assert_fact(fact, reason), for an informant
\* the fact's node holds.
RetractAssert(fact, reason) ==
    /\ pc = "idle"
    /\ PreOf(fact).known
    /\ reason \in PreOf(fact).assumptions
    /\ Returns(assert_fact(retract(Eng, fact, reason), fact, reason, <<>>),
               Call("retract_assert", fact, reason, <<>>, <<>>, "", PreOf(fact)))
    /\ UNCHANGED <<pc, fired, batch, result, stack>>

\* ---------------------------------------------------------------- traversals
\* propagate and re_evaluate one frame at a time.  A frame is a call's loop over
\* node.consequences: the node and the index of the justification it is at.
Frame(fn, n, k) == [fn |-> fn, node |-> n, k |-> k]

\* propagate's loop body for one justification: the nodes afterwards, and
\* whether propagate(cons) is called.
propagateJust(ns, js, j) ==
    LET cons == js[j].consequent
    IN  IF is_valid(ns, js, j) /\ ns[cons].label # "TRUE"
        THEN [nodes |-> [ns EXCEPT ![cons].label = "TRUE", ![cons].supp = j],
              recurse |-> TRUE]
        ELSE [nodes |-> ns, recurse |-> FALSE]

\* re_evaluate that cascades from a node with no support whatever its label
reEvaluateNodeAlways(ns, js, n) ==
    IF ns[n].assumptions # {}
    THEN [nodes |-> [ns EXCEPT ![n].label = "TRUE"], recurse |-> FALSE]
    ELSE IF ns[n].supp # 0 /\ is_valid(ns, js, ns[n].supp)
    THEN [nodes |-> [ns EXCEPT ![n].label = "TRUE"], recurse |-> FALSE]
    ELSE [nodes |-> [ns EXCEPT ![n].label = "UNKNOWN", ![n].supp = 0], recurse |-> TRUE]

\* re_evaluate(node) up to its loop: the nodes afterwards, and whether the
\* loop over node.consequences is entered.
reEvaluateNode(ns, js, n) ==
    IF ns[n].assumptions # {}
    THEN [nodes |-> [ns EXCEPT ![n].label = "TRUE"], recurse |-> FALSE]
    ELSE IF ns[n].supp # 0 /\ is_valid(ns, js, ns[n].supp)
    THEN [nodes |-> [ns EXCEPT ![n].label = "TRUE"], recurse |-> FALSE]
    ELSE IF ns[n].label # "UNKNOWN"
    THEN [nodes |-> [ns EXCEPT ![n].label = "UNKNOWN", ![n].supp = 0], recurse |-> TRUE]
    ELSE [nodes |-> ns, recurse |-> FALSE]

\* The call is under way: its traversal runs frame by frame.  `expected` is
\* what the call leaves when it is taken in one step.
Traverses(e, frames, call, expected) ==
    /\ pc' = "traversing"
    /\ stack' = frames
    /\ result' = <<expected.nodes>>
    /\ Returns(e, call)
    /\ UNCHANGED <<fired, batch>>

\* assert_fact(fact, just) without dependencies, up to propagate(node)
TraverseAssume(fact, just) ==
    /\ pc = "idle"
    /\ LET g    == get_dbclass(Eng, fact)
           n    == g.eng.dbclasses[g.dbc].datum
           ns   == g.eng.nodes
           ns1  == [ns EXCEPT ![n].assumptions = @ \cup {just}]
           call == Call("assert_fact", fact, just, <<>>, <<>>, "", PreOf(fact))
           exp  == assert_fact(Eng, fact, just, <<>>)
       IN  IF just \in ns[n].assumptions /\ ns[n].label = "TRUE"
           THEN Traverses(g.eng, <<>>, call, exp)
           ELSE IF ns1[n].label # "TRUE"
           THEN Traverses([g.eng EXCEPT !.nodes = [ns1 EXCEPT ![n].label = "TRUE"]],
                          <<Frame("propagate", n, 1)>>, call, exp)
           ELSE Traverses([g.eng EXCEPT !.nodes = ns1], <<>>, call, exp)

\* assert_fact(fact, just, dependencies), up to propagate(consequent)
TraverseSupport(fact, just, dependencies) ==
    /\ pc = "idle"
    /\ Len(justs) < MaxJusts
    /\ LET g    == get_dbclass(Eng, fact)
           n    == g.eng.dbclasses[g.dbc].datum
           a    == antecedentNodes(g.eng, dependencies, <<>>)
           j    == Len(a.eng.justs) + 1
           js1  == Append(a.eng.justs, [informant |-> just, consequent |-> n,
                                        antecedents |-> a.ants])
           ns1  == linkAntecedents([a.eng.nodes EXCEPT ![n].supp = j], a.ants, j, 1)
           call == Call("assert_fact", fact, just, dependencies, <<>>, "", PreOf(fact))
           exp  == assert_fact(Eng, fact, just, dependencies)
       IN  IF is_valid(ns1, js1, j) /\ ns1[n].label # "TRUE"
           THEN Traverses([a.eng EXCEPT !.justs = js1,
                                        !.nodes = [ns1 EXCEPT ![n].label = "TRUE",
                                                              ![n].supp = j]],
                          <<Frame("propagate", n, 1)>>, call, exp)
           ELSE Traverses([a.eng EXCEPT !.justs = js1, !.nodes = ns1], <<>>, call, exp)

\* retract(fact, reason), up to the loop of re_evaluate(node)
TraverseRetract(fact, reason) ==
    /\ pc = "idle"
    /\ LET g    == get_dbclass(Eng, fact)
           n    == g.eng.dbclasses[g.dbc].datum
           r    == reEvaluateNode([g.eng.nodes EXCEPT ![n].assumptions = @ \ {reason}],
                                  g.eng.justs, n)
           call == Call("retract", fact, reason, <<>>, <<>>, "", PreOf(fact))
       IN  Traverses([g.eng EXCEPT !.nodes = r.nodes],
                     IF r.recurse THEN <<Frame("re_evaluate", n, 1)>> ELSE <<>>,
                     call, retract(Eng, fact, reason))

\* The innermost frame goes on by one justification, or returns.
TraverseStep ==
    /\ pc = "traversing"
    /\ stack # <<>>
    /\ LET top   == stack[Len(stack)]
           below == SubSeq(stack, 1, Len(stack) - 1)
           n     == top.node
       IN  IF \/ top.k > Len(nodes[n].consequences)
              \/ top.fn = "propagate" /\ nodes[n].label # "TRUE"
           THEN stack' = below /\ UNCHANGED nodes
           ELSE LET j    == nodes[n].consequences[top.k]
                    cons == justs[j].consequent
                    r    == IF top.fn = "propagate"
                            THEN propagateJust(nodes, justs, j)
                            ELSE reEvaluateNode(nodes, justs, cons)
                    next == Append(below, Frame(top.fn, n, top.k + 1))
                IN  /\ r.recurse => Len(stack) < MaxDepth
                    /\ nodes' = r.nodes
                    /\ stack' = IF r.recurse
                                THEN Append(next, Frame(top.fn, cons, 1))
                                ELSE next
    /\ UNCHANGED <<justs, dbclasses, rules, queue, pc, lastOp, fired, batch, result>>

\* The traversal is over and the call returns: assert_fact goes on to
\* propagate_fact if its node is TRUE.
TraverseReturn ==
    /\ pc = "traversing"
    /\ stack = <<>>
    /\ pc' = "idle"
    /\ LET d == DbIndex(dbclasses, str(lastOp.fact))
           e == IF lastOp.op = "assert_fact" /\ is_true(nodes, dbclasses[d].datum)
                THEN propagate_fact(Eng, d)
                ELSE Eng
       IN  Returns(e, lastOp)
    /\ UNCHANGED <<fired, batch, result, stack>>

\* A call of unify or subst on its own: the pattern and the term it is about.
TermCall(op, pat, term) == [op |-> op, pat |-> pat, term |-> term]

\* env = unify(pat, term)
Unify ==
    /\ lastOp.op = "input"
    /\ lastOp' = TermCall("unify", lastOp.pat, lastOp.term)
    /\ result' = <<unifyTerm(lastOp.pat, lastOp.term)>>
    /\ UNCHANGED <<nodes, justs, dbclasses, rules, queue, pc, fired, batch, stack>>

\* subst(pat, env), for the env unify returned
Subst ==
    /\ lastOp.op = "unify"
    /\ result[1].ok
    /\ lastOp' = TermCall("subst", lastOp.pat, lastOp.term)
    /\ result' = <<substTerm(lastOp.pat, result[1].env)>>
    /\ UNCHANGED <<nodes, justs, dbclasses, rules, queue, pc, fired, batch, stack>>

\* ---------------------------------------------------------------- inputs
Taken101  == <<"taken", "CS101", "ryan">>
Taken102  == <<"taken", "CS102", "ryan">>
Taken103  == <<"taken", "CS103", "ryan">>
Requires  == <<"requires", "CS102", "CS101">>
Offered   == <<"offered", "CS102", "Fall">>
Eligible  == <<"eligible", "ryan", "CS102">>
Completed == <<"completedCourses", "ryan">>
IsaRyan   == <<"isa", "ryan", "student">>
Seats1    == <<"availeSeats", "1", "CS102">>
Seats1f   == <<"availeSeats", "1.0", "CS102">>

RuleEligible == << <<"TRUE", <<"taken", "?p", "?s">> >>, "eligible">>
RuleFinished == << <<"TRUE", <<"eligible", "?s", "?c">> >>, "finished">>
RuleFinished103 == << <<"TRUE", <<"taken", "CS103", "?s">> >>, "finished">>
RuleMaybe == << <<"MAYBE", <<"taken", "?p", "?s">> >>, "finished">>
RuleUnknown == << <<"UNKNOWN", <<"taken", "CS103", "?s">> >>, "finished">>

Init ==
    /\ nodes = <<>>
    /\ justs = <<>>
    /\ dbclasses = <<>>
    /\ rules = <<>>
    /\ queue = <<>>
    /\ pc = "idle"
    /\ lastOp = NoCall
    /\ fired = NoFired
    /\ batch = 0
    /\ result = <<>>
    /\ stack = <<>>

\* ---- the belief graph under assert_fact and retract
Premises == {<<Taken101, "user">>, <<Taken101, "assumed">>, <<Requires, "user">>}

Derivations == {<<Eligible, <<Taken101>> >>, <<Eligible, <<Requires>> >>,
                <<Completed, <<Eligible, Requires>> >>, <<Eligible, <<Completed>> >>,
                <<Eligible, <<Eligible>> >>}

Retractions == {<<Taken101, "user">>, <<Taken101, "assumed">>,
                <<Requires, "user">>, <<Eligible, "user">>}

NextBelief ==
    \/ \E p \in Premises : AssertFact(p[1], p[2], <<>>)
    \/ \E d \in Derivations : AssertFact(d[1], <<"derived", "user">>, d[2])
    \/ \E r \in Retractions : Retract(r[1], r[2])

SpecBelief == Init /\ [][NextBelief]_vars

\* ---- rules and the queue
RulePremises == {Taken101, Requires, Offered}

NextRules ==
    \/ \E f \in RulePremises : AssertFact(f, "user", <<>>)
    \/ Retract(Taken101, "user")
    \/ \E r \in {RuleEligible, RuleFinished} : AddRule(r[1], r[2])
    \/ RunRulesCall
    \/ RunRulesStep
    \/ RunRulesReturn

SpecRules == Init /\ [][NextRules]_vars

\* ---- rules matched against several facts of one pattern
MatchPremises == {Taken101, Taken103, Requires}

NextMatch ==
    \/ \E f \in MatchPremises : AssertFact(f, "user", <<>>)
    \/ Retract(Taken101, "user")
    \/ \E r \in {RuleEligible, RuleFinished103} : AddRule(r[1], r[2])
    \/ RunRulesCall
    \/ RunRulesStep
    \/ RunRulesReturn

SpecMatch == Init /\ [][NextMatch]_vars

\* ---- forms that are equal without being written the same
FormFacts == {Seats1, Seats1f, Taken101}

NextForms ==
    \/ \E f \in FormFacts, i \in {"user", "assumed"} : AssertFact(f, i, <<>>)
    \/ \E f \in FormFacts : AssertFact(Eligible, <<"derived", "user">>, <<f>>)
    \/ \E f \in FormFacts : Retract(f, "user")

SpecForms == Init /\ [][NextForms]_vars

\* ---- the end-to-end scenario: the four premises and the rule in any order,
\* ---- then run_rules, then the retraction of (taken CS101 ryan)
ScenarioFacts == {IsaRyan, Requires, Offered, Taken101}

ScenarioRan == lastOp.op \in {"run_rules", "body", "run_rules_return", "retract"}

ScenarioAssert ==
    /\ ~ScenarioRan
    /\ \E f \in ScenarioFacts, i \in {"user", "assumed"} :
           /\ ~HasKey(dbclasses, str(f))
           /\ AssertFact(f, i, <<>>)

ScenarioAddRule ==
    /\ ~ScenarioRan
    /\ rules = <<>>
    /\ AddRule(RuleEligible[1], RuleEligible[2])

ScenarioRunRules ==
    /\ ~ScenarioRan
    /\ rules # <<>>
    /\ \A f \in ScenarioFacts : HasKey(dbclasses, str(f))
    /\ RunRulesCall

ScenarioRetract ==
    /\ lastOp.op = "run_rules_return"
    /\ \E i \in {"user", "assumed"} :
           /\ i \in nodes[dbclasses[DbIndex(dbclasses, str(Taken101))].datum].assumptions
           /\ Retract(Taken101, i)

NextScenario ==
    \/ ScenarioAssert
    \/ ScenarioAddRule
    \/ ScenarioRunRules
    \/ RunRulesStep
    \/ RunRulesReturn
    \/ ScenarioRetract

SpecScenario == Init /\ [][NextScenario]_vars

\* ---- queries over premises and a derived fact
QueryFacts == {Taken101, Taken102, Taken103}

QueryPatterns == {<<"taken", "?p", "?s">>, <<"taken", "CS103", "?s">>,
                  <<"taken", "?p", "?p">>, <<"taken", "?p">>,
                  <<"eligible", "?s", "CS102">>}

NextQuery ==
    \/ \E f \in QueryFacts : AssertFact(f, "user", <<>>)
    \/ AssertFact(Eligible, <<"derived", "user">>, <<Taken101>>)
    \/ \E f \in {Taken101, Taken102} : Retract(f, "user")
    \/ \E p \in QueryPatterns : Fetch(p)

SpecQuery == Init /\ [][NextQuery]_vars

\* ---- rules whose condition is not one check_condition knows
ConditionRules == {RuleFinished103, RuleMaybe, RuleUnknown}

NextConditions ==
    \/ \E f \in {Taken101, Taken103} : AssertFact(f, "user", <<>>)
    \/ \E f \in {Taken101, Taken103} : Retract(f, "user")
    \/ \E r \in ConditionRules : AddRule(r[1], r[2])
    \/ RunRulesCall
    \/ RunRulesStep
    \/ RunRulesReturn

SpecConditions == Init /\ [][NextConditions]_vars

\* ---- unify and subst on patterns and ground terms of every kind
PatternAtoms == {"a", "1", "?p", "?s"}

GroundAtoms == {"a", "1.0"}

SeqsOf(A) == UNION {[1..n -> A] : n \in 1..MaxArity}

TermsOver(A) ==
    {Term("atom", <<x>>) : x \in A}
        \cup {Term(k, s) : k \in {"tuple", "list"}, s \in SeqsOf(A)}

InitTerms ==
    /\ nodes = <<>>
    /\ justs = <<>>
    /\ dbclasses = <<>>
    /\ rules = <<>>
    /\ queue = <<>>
    /\ pc = "idle"
    /\ lastOp \in {TermCall("input", p, t) :
                       p \in TermsOver(PatternAtoms), t \in TermsOver(GroundAtoms)}
    /\ fired = NoFired
    /\ batch = 0
    /\ result = <<>>
    /\ stack = <<>>

NextTerms ==
    \/ Unify
    \/ Subst

SpecTerms == InitTerms /\ [][NextTerms]_vars

\* ---- facts asserted again, as premises and as derived facts, under rules
NextRematch ==
    \/ AssertFact(Taken101, "user", <<>>)
    \/ AssertFact(Taken103, <<"derived", "user">>, <<Taken101>>)
    \/ Retract(Taken101, "user")
    \/ \E r \in {RuleEligible, RuleFinished103} : AddRule(r[1], r[2])
    \/ RunRulesCall
    \/ RunRulesStep
    \/ RunRulesReturn

SpecRematch == Init /\ [][NextRematch]_vars

\* ---- propagate and re_evaluate frame by frame, over graphs with cycles
CyclicDerivations == {<<Eligible, <<Taken101>> >>, <<Taken101, <<Eligible>> >>,
                      <<Eligible, <<Eligible>> >>}

NextTraverse ==
    \/ \E f \in {Taken101, Eligible} : TraverseAssume(f, "user")
    \/ \E d \in CyclicDerivations : TraverseSupport(d[1], "derived", d[2])
    \/ \E f \in {Taken101, Eligible} : TraverseRetract(f, "user")
    \/ TraverseStep
    \/ TraverseReturn

\* A call runs to completion: no frame waits for ever.
SpecTraverse ==
    Init /\ [][NextTraverse]_vars /\ WF_vars(TraverseStep) /\ WF_vars(TraverseReturn)

\* ---- a premise retracted and asserted again
RoundTripDerivations == {<<Eligible, <<Taken101>> >>, <<Eligible, <<Requires>> >>,
                         <<Eligible, <<Eligible>> >>}

NextRoundTrip ==
    \/ \E f \in {Taken101, Requires} : AssertFact(f, "user", <<>>)
    \/ \E d \in RoundTripDerivations : AssertFact(d[1], <<"derived", "user">>, d[2])
    \/ \E f \in {Taken101, Requires} : Retract(f, "user")
    \/ \E f \in {Taken101, Requires} : RetractAssert(f, "user")

SpecRoundTrip == Init /\ [][NextRoundTrip]_vars

\* ---------------------------------------------------------------- properties
NodeOf(fact) == dbclasses[DbIndex(dbclasses, str(fact))].datum

Supported(ns, js, n) ==
    \/ ns[n].assumptions # {}
    \/ ns[n].supp # 0 /\ is_valid(ns, js, ns[n].supp)

\* C1: once a call has returned, a node is TRUE exactly when it has an assumption
\* or its stored supporting justification has all antecedents TRUE, and is
\* UNKNOWN otherwise.
C1_LabelInvariant ==
    pc = "idle" =>
        \A n \in 1..Len(nodes) :
            /\ nodes[n].label = "TRUE" <=> Supported(nodes, justs, n)
            /\ nodes[n].label # "TRUE" => nodes[n].label = "UNKNOWN"

\* C2: once a call has returned, every justification whose antecedents are all
\* TRUE has a TRUE consequent.
C2_PropagationSound ==
    pc = "idle" =>
        \A j \in 1..Len(justs) :
            is_valid(nodes, justs, j) => nodes[justs[j].consequent].label = "TRUE"

\* The nodes reachable from the nodes of S along justifications, antecedent to
\* consequent (S included).
RECURSIVE ReachFrom(_, _)
ReachFrom(js, S) ==
    LET T == S \cup {js[j].consequent :
                     j \in {i \in 1..Len(js) :
                            \E k \in 1..Len(js[i].antecedents) : js[i].antecedents[k] \in S}}
    IN  IF T = S THEN S ELSE ReachFrom(js, T)

\* No assumption, and no justification of the node with all antecedents TRUE.
NoSupport(ns, js, m) ==
    /\ ns[m].assumptions = {}
    /\ \A j \in 1..Len(js) : js[j].consequent = m => ~is_valid(ns, js, j)

\* retract(fact, reason) takes the only assumption of a node no justification concludes.
RetractsSoleSupport(call, n) ==
    /\ call.op = "retract"
    /\ HasKey(dbclasses, str(call.fact))
    /\ n = NodeOf(call.fact)
    /\ nodes[n].assumptions = {call.just}
    /\ \A j \in 1..Len(justs) : justs[j].consequent # n

ReassertsHeld(call) ==
    /\ call.op = "assert_fact"
    /\ call.deps = <<>>
    /\ HasKey(dbclasses, str(call.fact))
    /\ nodes[NodeOf(call.fact)].label = "TRUE"
    /\ call.just \in nodes[NodeOf(call.fact)].assumptions

\* C8: asserting again, without dependencies, a TRUE fact under an informant it
\* already holds changes no node's label, assumption set or stored justification.
C8_IdempotentReassert ==
    [][ReassertsHeld(lastOp') =>
           /\ Len(nodes') = Len(nodes)
           /\ \A m \in 1..Len(nodes) :
                  /\ nodes'[m].label = nodes[m].label
                  /\ nodes'[m].assumptions = nodes[m].assumptions
                  /\ nodes'[m].supp = nodes[m].supp]_vars

\* Such a re-assertion has returned, with a justification hanging off the node
\* whose consequent is still not TRUE.
C8_Witness ==
    /\ lastOp.op = "assert_fact"
    /\ lastOp.deps = <<>>
    /\ lastOp.pre.known /\ lastOp.pre.label = "TRUE"
    /\ lastOp.just \in lastOp.pre.assumptions
    /\ \E j \in 1..Len(justs) :
           /\ is_valid(nodes, justs, j)
           /\ nodes[justs[j].consequent].label = "UNKNOWN"

IsPrefix(s, t) == Len(s) <= Len(t) /\ SubSeq(t, 1, Len(s)) = s

\* C4: every body run_rules invokes is the one of the oldest entry of the
\* queue, that entry leaves the queue, the entries behind it keep their order
\* ahead of whatever the body appends, and no other call takes an entry out.
C4_FifoDispatch ==
    [][/\ lastOp'.op = "body" =>
              /\ queue # <<>>
              /\ fired'.rule = Head(queue).rule
              /\ fired'.env = Head(queue).env
              /\ fired'.node = Head(queue).node
              /\ IsPrefix(Tail(queue), queue')
       /\ lastOp'.op # "body" => IsPrefix(queue, queue')]_vars

\* A body was invoked for an entry that an earlier body of the same pass appended.
C4_Witness ==
    /\ lastOp.op = "body"
    /\ fired.rule # 0
    /\ fired.late

\* C5: when run_rules returns the queue is empty, the entries appended by the
\* bodies of that call included.
C5_QueueDrained ==
    lastOp.op = "run_rules_return" => queue = <<>>

\* run_rules has returned after invoking an entry that one of its bodies appended.
C5_Witness ==
    /\ lastOp.op = "run_rules_return"
    /\ pc = "idle"
    /\ fired.late
    /\ queue = <<>>

\* The dbclasses a trigger matches: the form unifies and the node meets the condition.
Matches(trigger, d) ==
    /\ unify(trigger[2], dbclasses[d].form, EmptyEnv).ok
    /\ \/ trigger[1] = "TRUE" /\ nodes[dbclasses[d].datum].label = "TRUE"
       \/ trigger[1] = "FALSE" /\ nodes[dbclasses[d].datum].label = "FALSE"

\* C6: add_rule appends to the queue one entry of the new rule for each
\* registered dbclass whose form unifies with the pattern and whose node meets
\* the condition, in registration order, and nothing else.
C6_RetroactiveMatch ==
    [][lastOp'.op = "add_rule" =>
           LET M     == {d \in 1..Len(dbclasses) : Matches(lastOp'.trigger, d)}
               added == SubSeq(queue', Len(queue) + 1, Len(queue'))
           IN  /\ IsPrefix(queue, queue')
               /\ Len(added) = Cardinality(M)
               /\ \A k \in 1..Len(added) :
                      \E d \in M :
                          /\ Cardinality({x \in M : x < d}) = k - 1
                          /\ added[k].rule = Len(rules')
                          /\ added[k].node = dbclasses[d].datum
                          /\ added[k].env =
                                 unify(lastOp'.trigger[2], dbclasses[d].form, EmptyEnv).env]_vars

\* add_rule has returned having enqueued its rule for two facts, with a fact of
\* the same pattern that is not TRUE, or one that does not unify, left out.
C6_Witness ==
    /\ lastOp.op = "add_rule"
    /\ Len(queue) >= 2
    /\ queue[Len(queue)].rule = Len(rules)
    /\ queue[Len(queue) - 1].rule = Len(rules)
    /\ queue[Len(queue)].node > queue[Len(queue) - 1].node
    /\ Len(dbclasses) >= 3

\* C7: the node of every entry whose body run_rules invokes unifies with the
\* rule's pattern and meets the rule's condition when the body is invoked.
C7_FiresOnSatisfied ==
    fired.rule # 0 =>
        /\ unify(rules[fired.rule].trigger[2], nodes[fired.node].datum, EmptyEnv).ok
        /\ rules[fired.rule].trigger[1] = "TRUE" => fired.label = "TRUE"
        /\ rules[fired.rule].trigger[1] = "FALSE" => fired.label = "FALSE"

\* C9: the dbclasses and the nodes are in one-to-one correspondence, one of each
\* per form: no two dbclasses have the same form or the same node, every node
\* belongs to a dbclass, and get_dbclass and create_node find, for the form of a
\* registered dbclass, that dbclass and its node without creating anything.
C9_OneNodePerForm ==
    /\ Len(nodes) = Len(dbclasses)
    /\ \A i, j \in 1..Len(dbclasses) :
           i # j => /\ dbclasses[i].form # dbclasses[j].form
                    /\ dbclasses[i].datum # dbclasses[j].datum
    /\ \A d \in 1..Len(dbclasses) :
           /\ get_dbclass(Eng, dbclasses[d].form) = [eng |-> Eng, dbc |-> d]
           /\ create_node(nodes, dbclasses[d].form) =
                  [nodes |-> nodes, id |-> dbclasses[d].datum]

EligibleRyan == <<"eligible", "ryan", "?c">>

\* C10: in the scenario, once run_rules has returned, fetch((eligible ryan ?c))
\* is exactly [(eligible ryan CS102)]; once (taken CS101 ryan) has then been
\* retracted with its informant, (eligible ryan CS102) is UNKNOWN and the same
\* fetch is empty.
C10_EndToEnd ==
    /\ lastOp.op = "run_rules_return" => fetch(Eng, EligibleRyan) = <<Eligible>>
    /\ lastOp.op = "retract" =>
           /\ HasKey(dbclasses, str(Eligible))
           /\ nodes[NodeOf(Eligible)].label = "UNKNOWN"
           /\ fetch(Eng, EligibleRyan) = <<>>

\* The scenario has run to its end: the rule derived (eligible ryan CS102) from
\* the three premises and the retraction has returned.
C10_Witness ==
    /\ lastOp.op = "retract"
    /\ lastOp.fact = Taken101
    /\ lastOp.pre.assumptions = {lastOp.just}
    /\ HasKey(dbclasses, str(Eligible))
    /\ \E j \in 1..Len(justs) :
           /\ justs[j].consequent = NodeOf(Eligible)
           /\ Len(justs[j].antecedents) = 3
    /\ fetch(Eng, EligibleRyan) = <<>>

\* The dbclasses a fetch of the pattern answers for.
Qualifies(pattern, d) ==
    /\ unify(pattern, dbclasses[d].form, EmptyEnv).ok
    /\ nodes[dbclasses[d].datum].label = "TRUE"

\* C11: fetch(pattern) returns, in registration order, subst(pattern, bindings)
\* for each dbclass whose form unifies with the pattern and whose node is TRUE,
\* each result without variables, and nothing else (the empty sequence when no
\* dbclass qualifies); it changes no node, justification, dbclass, rule or
\* queue entry.
C11_FetchContract ==
    [][lastOp'.op = "fetch" =>
           LET pattern == lastOp'.fact
               Q == {d \in 1..Len(dbclasses) : Qualifies(pattern, d)}
           IN  /\ Len(result') = Cardinality(Q)
               /\ \A k \in 1..Len(result') :
                      /\ \E d \in Q :
                             /\ Cardinality({x \in Q : x < d}) = k - 1
                             /\ result'[k] =
                                    subst(pattern,
                                          unify(pattern, dbclasses[d].form, EmptyEnv).env)
                      /\ \A i \in 1..Len(result'[k]) : ~is_var(result'[k][i])
               /\ UNCHANGED <<nodes, justs, dbclasses, rules, queue>>]_vars

\* A fetch has returned two results in registration order, having passed over a
\* dbclass registered before them that unifies but whose node is not TRUE.
C11_Witness ==
    /\ lastOp.op = "fetch"
    /\ Len(result) = 2
    /\ result[1] # result[2]
    /\ \E d \in 1..Len(dbclasses) :
           /\ d < Len(dbclasses)
           /\ unify(lastOp.fact, dbclasses[d].form, EmptyEnv).ok
           /\ nodes[dbclasses[d].datum].label = "UNKNOWN"

\* C12: no call removes a justification: after every step each node's
\* consequence list has its previous value as a prefix, no node is removed, and
\* the justifications made so far are all still there, unchanged.
C12_JustificationsPersist ==
    [][/\ Len(nodes') >= Len(nodes)
       /\ \A n \in 1..Len(nodes) :
              IsPrefix(nodes[n].consequences, nodes'[n].consequences)
       /\ IsPrefix(justs, justs')]_vars

\* A retract has returned whose cascade took to UNKNOWN a node other than the
\* retracted one, and both still carry the justifications they are antecedents of.
C12_Witness ==
    /\ lastOp.op = "retract"
    /\ lastOp.pre.known /\ lastOp.pre.label = "TRUE"
    /\ LET n == NodeOf(lastOp.fact)
       IN  /\ nodes[n].label = "UNKNOWN"
           /\ Len(nodes[n].consequences) >= 2
           /\ \E m \in 1..Len(nodes) :
                  /\ m # n
                  /\ nodes[m].label = "UNKNOWN"
                  /\ nodes[m].consequences # <<>>
                  /\ \E k \in 1..Len(nodes[n].consequences) :
                         justs[nodes[n].consequences[k]].consequent = m

Recognized(r) == rules[r].trigger[1] \in {"TRUE", "FALSE"}

\* C13: a rule whose condition is neither TRUE nor FALSE is registered like any
\* other, and no queue entry is ever made for it, by add_rule or by a later
\* assert_fact, whatever the labels of the facts its pattern unifies with; so
\* its body is never invoked.
C13_UnknownConditionNeverMatches ==
    /\ \A r \in 1..Len(rules) : rules[r].id = r
    /\ lastOp.op = "add_rule" =>
           /\ rules # <<>>
           /\ rules[Len(rules)].trigger = lastOp.trigger
           /\ rules[Len(rules)].body = lastOp.body
    /\ \A k \in 1..Len(queue) : Recognized(queue[k].rule)
    /\ fired.rule # 0 => Recognized(fired.rule)

\* assert_fact has returned with its fact TRUE and a queue entry for the rule
\* on TRUE, while a rule on another condition whose pattern unifies with the
\* fact is registered and has none.
C13_Witness ==
    /\ lastOp.op = "assert_fact"
    /\ nodes[NodeOf(lastOp.fact)].label = "TRUE"
    /\ queue # <<>>
    /\ \E r \in 1..Len(rules) :
           /\ ~Recognized(r)
           /\ unify(rules[r].trigger[2], lastOp.fact, EmptyEnv).ok
           /\ \A k \in 1..Len(queue) : queue[k].rule # r

\* An arity mismatch, a constant of the pattern against another constant, or a
\* variable that occurs twice against two different constants.
Mismatch(p, t) ==
    \/ /\ IsSeqTerm(p) /\ IsSeqTerm(t)
       /\ \/ Len(p.items) # Len(t.items)
          \/ /\ Len(p.items) = Len(t.items)
             /\ \/ \E i \in 1..Len(p.items) :
                       ~is_var(p.items[i]) /\ ~PyEqAtom(p.items[i], t.items[i])
                \/ \E i, j \in 1..Len(p.items) :
                       /\ is_var(p.items[i]) /\ p.items[i] = p.items[j]
                       /\ ~PyEqAtom(t.items[i], t.items[j])
    \/ /\ p.kind = "atom" /\ t.kind = "atom"
       /\ ~is_var(p.items[1]) /\ ~PyEqAtom(p.items[1], t.items[1])

UnifyFailsOnMismatch ==
    lastOp.op = "unify" /\ Mismatch(lastOp.pat, lastOp.term) => ~result[1].ok

\* A tuple against a list, or a list against a tuple.
MixedKinds(p, t) == IsSeqTerm(p) /\ IsSeqTerm(t) /\ p.kind # t.kind

\* C14 as stated: whenever unify(p, t) succeeds with environment e on a ground
\* term t, subst(p, e) == t; and unify fails on an arity or constant mismatch
\* and on a variable that occurs twice against two different constants.
C14_RoundTrip ==
    /\ lastOp.op = "subst" => PyEqTerm(result[1], lastOp.term)
    /\ UnifyFailsOnMismatch

\* C14 amended: subst(p, e) == t when p and t are not a tuple and a list; when
\* they are, subst(p, e) is the sequence of p's kind with t's items.  unify
\* fails as stated.
C14_RoundTripSameKind ==
    /\ lastOp.op = "subst" =>
           IF MixedKinds(lastOp.pat, lastOp.term)
           THEN /\ result[1].kind = lastOp.pat.kind
                /\ PyEq(result[1].items, lastOp.term.items)
           ELSE PyEqTerm(result[1], lastOp.term)
    /\ UnifyFailsOnMismatch

\* subst has returned t for a tuple pattern in which a variable occurs twice,
\* next to another variable, unified with a tuple.
C14_Witness ==
    /\ lastOp.op = "subst"
    /\ lastOp.pat.kind = "tuple" /\ lastOp.term.kind = "tuple"
    /\ Len(lastOp.pat.items) = 3
    /\ lastOp.pat.items[1] = lastOp.pat.items[3]
    /\ is_var(lastOp.pat.items[1]) /\ is_var(lastOp.pat.items[2])
    /\ lastOp.pat.items[2] # lastOp.pat.items[1]
    /\ lastOp.term.items[2] # lastOp.term.items[1]
    /\ result[1] = lastOp.term

\* The condition of a trigger holds of a label.
CondHolds(cond, label) ==
    \/ cond = "TRUE" /\ label = "TRUE"
    \/ cond = "FALSE" /\ label = "FALSE"

\* C15: an assert_fact call after which the fact's node is TRUE appends to the
\* queue one entry (rule, bindings, node) for each registered rule whose
\* pattern unifies with the fact and whose condition holds, in registration
\* order, and nothing else, whether or not the node was TRUE before; a call
\* after which the node is not TRUE appends nothing.
C15_RematchOnAssert ==
    [][lastOp'.op = "assert_fact" =>
           LET fact  == lastOp'.fact
               n     == dbclasses'[DbIndex(dbclasses', str(fact))].datum
               R     == {r \in 1..Len(rules) :
                            /\ nodes'[n].label = "TRUE"
                            /\ unify(rules[r].trigger[2], fact, EmptyEnv).ok
                            /\ CondHolds(rules[r].trigger[1], nodes'[n].label)}
               added == SubSeq(queue', Len(queue) + 1, Len(queue'))
           IN  /\ rules' = rules
               /\ IsPrefix(queue, queue')
               /\ Len(added) = Cardinality(R)
               /\ \A k \in 1..Len(added) :
                      \E r \in R :
                          /\ Cardinality({x \in R : x < r}) = k - 1
                          /\ added[k] =
                                 [rule |-> r, node |-> n,
                                  env |-> unify(rules[r].trigger[2], fact, EmptyEnv).env]]_vars

\* assert_fact has returned for a derived fact that was TRUE before the call,
\* and the queue holds the entries of two rules for it, in registration order.
C15_Witness ==
    /\ lastOp.op = "assert_fact"
    /\ lastOp.deps # <<>>
    /\ lastOp.pre.known /\ lastOp.pre.label = "TRUE"
    /\ Len(rules) = 2
    /\ Len(queue) = 2
    /\ \A k \in 1..2 : queue[k].rule = k /\ queue[k].node = NodeOf(lastOp.fact)

\* C16: when an assert_fact call returns, every node the call made TRUE (the
\* asserted one or a consequent that propagate made TRUE) has had appended to
\* the queue an entry (rule, bindings, node) for every registered rule on TRUE
\* whose pattern unifies with the node's form.
C16_RulesSeePropagated ==
    [][lastOp'.op = "assert_fact" =>
           \A n \in 1..Len(nodes') :
               /\ nodes'[n].label = "TRUE"
               /\ n <= Len(nodes) => nodes[n].label # "TRUE"
               => \A r \in 1..Len(rules) :
                      LET u == unify(rules[r].trigger[2], nodes'[n].datum, EmptyEnv)
                      IN  rules[r].trigger[1] = "TRUE" /\ u.ok =>
                              \E k \in (Len(queue) + 1)..Len(queue') :
                                  queue'[k] = [rule |-> r, env |-> u.env, node |-> n]]_vars

\* C17: every call of propagate and of re_evaluate returns, cycles of
\* justifications included: a call under way always comes to its end.
C17_TraversalsTerminate == (pc = "traversing") ~> (pc = "idle")

\* Each frame entered stands for a node whose label the traversal has just
\* changed, so there are never more frames than nodes, and what the frames
\* leave is what the call leaves when taken in one step.
TraversalAgrees ==
    /\ Len(stack) <= Len(nodes)
    /\ Len(stack) < MaxDepth
    /\ pc = "idle" /\ lastOp.op \in {"assert_fact", "retract"} => nodes = result[1]

\* A retract has returned whose re_evaluate went round a cycle of two
\* justifications: both nodes of the cycle were TRUE and are UNKNOWN.
C17_Witness ==
    /\ pc = "idle"
    /\ lastOp.op = "retract"
    /\ lastOp.pre.label = "TRUE"
    /\ nodes = result[1]
    /\ \E i, j \in 1..Len(justs) :
           /\ justs[i].consequent # justs[j].consequent
           /\ justs[i].antecedents = <<justs[j].consequent>>
           /\ justs[j].antecedents = <<justs[i].consequent>>
           /\ nodes[justs[i].consequent].label = "UNKNOWN"
           /\ nodes[justs[j].consequent].label = "UNKNOWN"

\* The TRUE nodes grounded in assumptions: the least set that holds the nodes
\* with an assumption and every TRUE node that some justification concludes
\* from nodes of the set.
RECURSIVE GroundedFrom(_, _, _)
GroundedFrom(ns, js, G) ==
    LET H == G \cup {n \in 1..Len(ns) :
                        /\ ns[n].label = "TRUE"
                        /\ \E j \in 1..Len(js) :
                               /\ js[j].consequent = n
                               /\ \A k \in 1..Len(js[j].antecedents) :
                                      js[j].antecedents[k] \in G}
    IN  IF H = G THEN G ELSE GroundedFrom(ns, js, H)

Grounded ==
    GroundedFrom(nodes, justs,
                 {n \in 1..Len(nodes) : nodes[n].label = "TRUE" /\ nodes[n].assumptions # {}})

\* C18: once a call has returned, every TRUE node is grounded in assumptions:
\* it has an assumption, or a justification concludes it from TRUE nodes that
\* are grounded themselves.
C18_WellFoundedBelief ==
    pc = "idle" => \A n \in 1..Len(nodes) : nodes[n].label = "TRUE" => n \in Grounded

\* C19: retract(form, i) followed by assert_fact(form, i), for an informant i
\* that the fact's node holds, leaves every node with the label it had before
\* the retract.
C19_RetractAssertRoundTrip ==
    [][lastOp'.op = "retract_assert" =>
           /\ Len(nodes') = Len(nodes)
           /\ \A n \in 1..Len(nodes) : nodes'[n].label = nodes[n].label]_vars

\* C20: retract(form, informant) with an informant that the form's node does
\* not hold leaves every node's label, assumption set and stored supporting
\* justification as they were, and the rules and the queue unchanged.
C20_RetractAbsentNoOp ==
    [][lastOp'.op = "retract" /\ lastOp'.just \notin lastOp'.pre.assumptions =>
           /\ \A n \in 1..Len(nodes) :
                  /\ nodes'[n].label = nodes[n].label
                  /\ nodes'[n].assumptions = nodes[n].assumptions
                  /\ nodes'[n].supp = nodes[n].supp
           /\ rules' = rules
           /\ queue' = queue]_vars

====
